---- MODULE Spec2Model ----
(***************************************************************************)
(* Model of the DLQ status reporter                                        *)
(* (terraform/lambda/eventbridge_dlq_handler.py).                          *)
(*                                                                         *)
(* One invocation of handler(event, context) is a run of the state machine *)
(* below.  Python strings whose characters matter (object keys, event      *)
(* types, urls) are sequences of one-character strings; None is the        *)
(* one-element sequence <<"None">>, which no character sequence equals.    *)
(***************************************************************************)
EXTENDS Integers, Sequences, FiniteSets, TLC

\* Largest number of records in one batch.
MaxBatch == 2

None == <<"None">>

\* ---------------------------------------------------------------- strings
ObjectCreated == <<"O","b","j","e","c","t"," ","C","r","e","a","t","e","d">>
ObjectDeleted == <<"O","b","j","e","c","t"," ","D","e","l","e","t","e","d">>
ObjectTagsAdded == <<"O","b","j","e","c","t"," ","T","a","g","s"," ","A","d","d","e","d">>

KeyAbcPdf == <<"d","o","c","u","m","e","n","t","s","/","a","b","c","1","2","3",".","p","d","f">>
KeyBarTxt == <<"f","o","o","/","b","a","r",".","t","x","t">>
KeyTarGz == <<"a","/","x",".","t","a","r",".","g","z">>
KeyDotEnv == <<"a","/",".","e","n","v">>
KeyFolder == <<"f","o","l","d","e","r","/">>
KeyEmpty == <<>>

ALB_BASE_URL == <<"{ALB_BASE_URL}">>
DOCS_API_PATH == <<"/","a","p","i","/","d","o","c","u","m","e","n","t","s">>

\* ------------------------------------------------------- Path(key).stem
\* The "/"-separated components of s, empty ones included.
\* F(v), with v evaluated once.
Bind(v, F(_)) == CHOOSE r \in {F(x) : x \in {v}} : TRUE

RECURSIVE Split(_)
Split(s) ==
    IF \A i \in 1..Len(s) : s[i] # "/"
    THEN <<s>>
    ELSE LET i == CHOOSE j \in 1..Len(s) :
                      s[j] = "/" /\ \A k \in 1..(j-1) : s[k] # "/"
         IN <<SubSeq(s, 1, i-1)>> \o Bind(SubSeq(s, i+1, Len(s)), Split)

IsPathPart(c) == c # <<>> /\ c # <<".">>

\* PurePath.name: the last component, "" and "." components dropped.
LastOf(parts) == IF parts = <<>> THEN <<>> ELSE parts[Len(parts)]

PathName(key) == Bind(SelectSeq(Bind(key, Split), IsPathPart), LastOf)

\* str.rfind(".") + 1: position of the last dot, 0 when there is none.
RFindDot(name) ==
    LET dots == {i \in 1..Len(name) : name[i] = "."}
    IN IF dots = {} THEN 0 ELSE CHOOSE i \in dots : \A j \in dots : j <= i

\* str.find(".") + 1: position of the first dot.
FindDot(name) ==
    LET dots == {i \in 1..Len(name) : name[i] = "."}
    IN IF dots = {} THEN 0 ELSE CHOOSE i \in dots : \A j \in dots : j >= i

StemAt(name, i) ==
    IF 1 < i /\ i < Len(name) THEN SubSeq(name, 1, i-1) ELSE name

StemOfNameFirstDot(name) == StemAt(name, FindDot(name))

StemFirstDot(key) == Bind(PathName(key), StemOfNameFirstDot)

\* Path(key).stem
StemOfName(name) == StemAt(name, RFindDot(name))

Stem(key) == Bind(PathName(key), StemOfName)

\* ------------------------------------------------------------- payloads
\* An environment entry {"name": n, "value": v}; v = None when the entry
\* has no "value".
Env(n, v) == [name |-> n, value |-> v]

Pair(key, et) == <<Env("S3_OBJECT_KEY", key), Env("EVENT_TYPE", et)>>

\* A "containerOverrides" field: present or not, and its list of overrides,
\* each override being its "environment" list.
Absent == [present |-> FALSE, list |-> <<>>]
Ovs(l) == [present |-> TRUE, list |-> l]

\* A record body: text that is not JSON, JSON that is not an object, or a
\* JSON object with its "detail-type", its top-level "containerOverrides"
\* and its detail.overrides.containerOverrides.
BadJson == [kind |-> "badjson", dt |-> "absent", top |-> Absent, det |-> Absent]
NonObject == [kind |-> "nonobject", dt |-> "absent", top |-> Absent, det |-> Absent]
Obj(dt, top, det) == [kind |-> "object", dt |-> dt, top |-> top, det |-> det]
Ecs(l) == Obj("ECS Task State Change", Absent, Ovs(l))
RunTask(l) == Obj("absent", Ovs(l), Absent)

EcsBodies ==
    { Ecs(<<Pair(KeyBarTxt, ObjectCreated)>>),
      Ecs(<<Pair(KeyAbcPdf, ObjectDeleted)>>),
      Ecs(<<Pair(KeyAbcPdf, ObjectTagsAdded)>>),
      Ecs(<<Pair(KeyTarGz, ObjectCreated)>>),
      Ecs(<<<<Env("EVENT_TYPE", ObjectCreated)>>>>),
      Ecs(<<<<>>, Pair(KeyBarTxt, ObjectCreated)>>),
      Ecs(<<>>),
      Obj("ECS Task State Change", Absent, Absent),
      Obj("ECS Task State Change", Ovs(<<Pair(KeyAbcPdf, ObjectDeleted)>>), Absent),
      Obj("ECS Task State Change", Ovs(<<Pair(KeyAbcPdf, ObjectDeleted)>>),
          Ovs(<<Pair(KeyBarTxt, ObjectCreated)>>)) }

RunTaskBodies ==
    { RunTask(<<Pair(KeyAbcPdf, ObjectCreated)>>),
      RunTask(<<Pair(KeyBarTxt, ObjectDeleted)>>),
      RunTask(<<Pair(KeyDotEnv, ObjectDeleted)>>),
      RunTask(<<Pair(KeyFolder, ObjectCreated)>>),
      RunTask(<<Pair(KeyEmpty, ObjectCreated)>>),
      RunTask(<<Pair(KeyBarTxt, ObjectTagsAdded)>>),
      RunTask(<<<<Env("S3_OBJECT_KEY", KeyBarTxt)>>>>),
      RunTask(<<<<Env("S3_OBJECT_KEY", None), Env("EVENT_TYPE", ObjectCreated)>>>>),
      RunTask(<<<<Env("EVENT_TYPE", ObjectCreated), Env("S3_OBJECT_KEY", KeyAbcPdf),
                  Env("EVENT_TYPE", ObjectTagsAdded)>>>>),
      RunTask(<<<<Env("S3_OBJECT_KEY", KeyBarTxt)>>,
                <<Env("EVENT_TYPE", ObjectDeleted)>>>>),
      RunTask(<<Pair(KeyAbcPdf, ObjectCreated), Pair(KeyBarTxt, ObjectDeleted)>>),
      RunTask(<<>>),
      Obj("Other Event", Ovs(<<Pair(KeyBarTxt, ObjectCreated)>>), Absent) }

OtherBodies ==
    { BadJson,
      NonObject,
      Obj("absent", Absent, Absent),
      Obj("Other Event", Absent, Ovs(<<Pair(KeyBarTxt, ObjectCreated)>>)) }

Bodies == EcsBodies \cup RunTaskBodies \cup OtherBodies

Batches == UNION {[1..n -> Bodies] : n \in 0..MaxBatch}

\* ------------------------------------------------------ pure functions
\* json.loads(body): the decoded value, or JSONDecodeError.
JsonLoads(body) == IF body.kind = "badjson" THEN "JSONDecodeError" ELSE "value"

\* env_map.get(name) of the dict comprehension: the value of the last entry
\* with that name, None when there is none.
EnvMapGet(env_list, name) ==
    LET at == {i \in 1..Len(env_list) : env_list[i].name = name}
    IN IF at = {} THEN None
       ELSE env_list[CHOOSE i \in at : \A j \in at : j <= i].value

get_key_and_event_type_last(overrides) ==
    IF overrides = <<>> THEN <<None, None>>
    ELSE <<EnvMapGet(overrides[Len(overrides)], "S3_OBJECT_KEY"),
           EnvMapGet(overrides[Len(overrides)], "EVENT_TYPE")>>

\* The value of name in the first override that has one.
FirstAcross(overrides, name) ==
    LET at == {j \in 1..Len(overrides) : EnvMapGet(overrides[j], name) # None}
    IN IF at = {} THEN None
       ELSE EnvMapGet(overrides[CHOOSE j \in at : \A k \in at : j <= k], name)

get_key_and_event_type_any(overrides) ==
    <<FirstAcross(overrides, "S3_OBJECT_KEY"), FirstAcross(overrides, "EVENT_TYPE")>>

get_key_and_event_type(overrides) ==
    IF overrides = <<>> THEN <<None, None>>
    ELSE <<EnvMapGet(overrides[1], "S3_OBJECT_KEY"),
           EnvMapGet(overrides[1], "EVENT_TYPE")>>

status_from_event_type_swapped(event_type) ==
    IF event_type = ObjectCreated THEN "delete_failed"
    ELSE IF event_type = ObjectDeleted THEN "failed"
    ELSE "None"

status_from_event_type(event_type) ==
    IF event_type = ObjectCreated THEN "failed"
    ELSE IF event_type = ObjectDeleted THEN "delete_failed"
    ELSE "None"

\* Python truthiness of a str-or-None value.
Truthy(v) == v # None /\ v # <<>>

Url(document_id) == ALB_BASE_URL \o DOCS_API_PATH \o <<"/">> \o document_id

\* What a handle_* function does up to its call of patch_status: return
\* after an error log, or call patch_status(document_id, status, ...).
Skip(msg) == [call |-> FALSE, msg |-> msg, document_id |-> None, status |-> "None"]
Call(msg, document_id, status) ==
    [call |-> TRUE, msg |-> msg, document_id |-> document_id, status |-> status]

handle_run_task_dlq(payload) ==
    LET ke == get_key_and_event_type(payload.top.list)
        key == ke[1]
        event_type == ke[2]
        status == status_from_event_type(event_type)
    IN IF ~Truthy(key) \/ ~Truthy(event_type)
       THEN Skip("Missing S3_OBJECT_KEY or EVENT_TYPE in RunTask payload; skipping")
       ELSE IF status = "None"
       THEN Skip("Unknown EVENT_TYPE in RunTask payload; skipping")
       ELSE Call("Handling RunTask DLQ message", Stem(key), status)

handle_ecs_task_failure(payload) ==
    LET ke == get_key_and_event_type(payload.det.list)
        key == ke[1]
        event_type == ke[2]
        status == status_from_event_type(event_type)
    IN IF ~Truthy(key) \/ ~Truthy(event_type)
       THEN Skip("Missing S3_OBJECT_KEY or EVENT_TYPE in ECS detail; skipping")
       ELSE IF status = "None"
       THEN Skip("Unknown EVENT_TYPE in ECS detail; skipping")
       ELSE Call("Handling ECS Task failure event", Stem(key), status)

\* The branch the loop body takes for a decoded payload; payload.get on a
\* value that is not a dict raises AttributeError.
Classify(payload) ==
    IF payload.kind # "object" THEN "AttributeError"
    ELSE IF payload.dt = "ECS Task State Change" THEN "ecs"
    ELSE IF payload.top.present THEN "run_task"
    ELSE "unrecognized"

\* The record the for loop yields at its n-th iteration.
RecordAtReversed(recs, n) == recs[Len(recs) + 1 - n]

RecordAt(recs, n) == recs[n]

\* ---------------------------------------------------------------- state
\* The status reporter: the event and configuration of the invocation, the
\* locals of handler and what it has done so far, and the invocations that
\* came before it.
VARIABLES event, origin_verify_arn, history,
          records, pc, idx, token, origin_secret, fetches, parsed, pending,
          patches, log, exc

\* The extension initializer (lambdas/init-pgvector/src/index.py): its
\* position, its locals, the database and the calls it has made.
VARIABLES pg_pc, password, conn, schema, tx, available, pg_calls, pg_exc, pg_runs

pgVars == <<pg_pc, password, conn, schema, tx, available, pg_calls, pg_exc, pg_runs>>

vars == <<event, origin_verify_arn, history,
          records, pc, idx, token, origin_secret, fetches, parsed, pending,
          patches, log, exc, pgVars>>

\* The event of an invocation: its "Records" list, which may be missing.
NoRecordsKey == [has_records |-> FALSE, Records |-> <<>>]
Events == {NoRecordsKey} \cup {[has_records |-> TRUE, Records |-> b] : b \in Batches}

\* event.get("Records", [])
EventGetRecords(ev) == IF ev.has_records THEN ev.Records ELSE <<>>

\* os.environ.get("ORIGIN_VERIFY_ARN"): the configured ARN, or None.
OriginVerifyArns == {"arn:origin-verify", "None"}

\* secrets_client.get_secret_value(SecretId=secret_id): it can succeed or
\* fail for an ARN, and it fails parameter validation for None.
GetSecretValueOutcomes(secret_id) == IF secret_id = "None" THEN {FALSE} ELSE BOOLEAN

\* The initializer before its invocation, on a database without the
\* extension.
PgIdle ==
    /\ pg_pc = "entry"
    /\ password = "None"
    /\ conn = "none"
    /\ schema = {}
    /\ tx = {}
    /\ available = TRUE
    /\ pg_calls = <<>>
    /\ pg_exc = "None"
    /\ pg_runs = <<>>

Log(level, msg, rec) == [level |-> level, msg |-> msg, rec |-> rec]

NoPending == [document_id |-> None, status |-> "None"]

\* The locals of handler at the start of an invocation.
HandlerStart ==
    /\ pc = "entry"
    /\ idx = 0
    /\ token = "None"
    /\ origin_secret = "None"
    /\ fetches = <<>>
    /\ parsed = <<>>
    /\ pending = NoPending
    /\ patches = <<>>
    /\ log = <<>>
    /\ exc = "None"

Init ==
    /\ event \in Events
    /\ origin_verify_arn \in OriginVerifyArns
    /\ history = <<>>
    /\ PgIdle
    /\ records = EventGetRecords(event)
    /\ HandlerStart

handler_entry_no_early_return ==
    /\ pc = "entry"
    /\ log' = Append(log, Log("info", "Status DLQ Lambda invocation received", 0))
    /\ pc' = "get_ingestion_token"
    /\ UNCHANGED <<records, idx, token, origin_secret, fetches, parsed, pending,
                   patches, exc>>
    /\ UNCHANGED <<event, origin_verify_arn, history, pgVars>>

\* handler, up to the early return on an empty batch.
handler_entry ==
    /\ pc = "entry"
    /\ IF records = <<>>
       THEN /\ log' = log \o <<Log("info", "Status DLQ Lambda invocation received", 0),
                               Log("info", "No records in event; nothing to process", 0)>>
            /\ pc' = "returned"
       ELSE /\ log' = Append(log, Log("info", "Status DLQ Lambda invocation received", 0))
            /\ pc' = "get_ingestion_token"
    /\ UNCHANGED <<records, idx, token, origin_secret, fetches, parsed, pending,
                   patches, exc>>
    /\ UNCHANGED <<event, origin_verify_arn, history, pgVars>>

\* Where handler goes after a secret fetch that succeeded or raised.
AfterFetchIgnoringFailure(ok, next) == next

AfterFetch(ok, next) == IF ok THEN next ELSE "raised"

\* token = get_ingestion_token(), with the handler's except/raise around it.
get_ingestion_token ==
    /\ pc = "get_ingestion_token"
    /\ \E ok \in BOOLEAN :
         /\ fetches' = Append(fetches, [secret |-> "INGESTION_API_TOKEN_ARN", ok |-> ok])
         /\ pc' = AfterFetch(ok, "get_origin_verify_secret")
         /\ IF ok
            THEN /\ token' = "ingestion-token"
                 /\ exc' = exc
                 /\ log' = log \o
                      <<Log("info", "Fetching ingestion API token from Secrets Manager", 0),
                        Log("info", "Successfully fetched ingestion API token", 0)>>
            ELSE /\ token' = token
                 /\ exc' = "SecretsManagerError"
                 /\ log' = log \o
                      <<Log("info", "Fetching ingestion API token from Secrets Manager", 0),
                        Log("exception", "Failed to fetch ingestion API token from Secrets Manager", 0),
                        Log("exception", "Aborting batch: could not fetch ingestion token", 0)>>
    /\ UNCHANGED <<records, idx, origin_secret, parsed, pending, patches>>
    /\ UNCHANGED <<event, origin_verify_arn, history, pgVars>>

\* origin_secret = get_origin_verify_secret(), with the handler's except/raise.
get_origin_verify_secret ==
    /\ pc = "get_origin_verify_secret"
    /\ \E ok \in GetSecretValueOutcomes(origin_verify_arn) :
         /\ fetches' = Append(fetches, [secret |-> "ORIGIN_VERIFY_ARN", ok |-> ok])
         /\ pc' = AfterFetch(ok, "for")
         /\ IF ok
            THEN /\ origin_secret' = "origin-verify-secret"
                 /\ exc' = exc
                 /\ log' = log \o
                      <<Log("info", "Fetching Origin Verify Secret token from Secrets Manager", 0),
                        Log("info", "Successfully fetched Origin Verify Secret", 0)>>
            ELSE /\ origin_secret' = origin_secret
                 /\ exc' = IF origin_verify_arn = "None" THEN "ParamValidationError"
                           ELSE "SecretsManagerError"
                 /\ log' = log \o
                      <<Log("info", "Fetching Origin Verify Secret token from Secrets Manager", 0),
                        Log("exception", "Failed to fetch Origin Verify Secret from Secrets Manager", 0),
                        Log("exception", "Aborting batch: could not fetch Origin Verify Secret", 0)>>
    /\ UNCHANGED <<records, idx, token, parsed, pending, patches>>
    /\ UNCHANGED <<event, origin_verify_arn, history, pgVars>>

\* The try/except around json.loads in the loop body: on JSONDecodeError the
\* record is logged and skipped ("continue"), otherwise the payload is
\* dispatched.
OnJsonLoadsUncaught(result) ==
    IF result = "JSONDecodeError"
    THEN [pc |-> "raised", exc |-> "JSONDecodeError", logs |-> <<>>]
    ELSE [pc |-> "dispatch", exc |-> "None", logs |-> <<>>]

OnJsonLoads(result) ==
    IF result = "JSONDecodeError"
    THEN [pc |-> "for", exc |-> "None",
          logs |-> <<[level |-> "error", msg |-> "Bad JSON body in SQS message; skipping"]>>]
    ELSE [pc |-> "dispatch", exc |-> "None", logs |-> <<>>]

\* for record in records: the next record is taken and its body decoded.
handler_for_next ==
    /\ pc = "for"
    /\ idx < Len(records)
    /\ LET record == RecordAt(records, idx + 1)
           r == OnJsonLoads(JsonLoads(record))
       IN /\ idx' = idx + 1
          /\ parsed' = Append(parsed, record)
          /\ pc' = r.pc
          /\ exc' = IF r.exc = "None" THEN exc ELSE r.exc
          /\ log' = log \o [i \in 1..Len(r.logs) |->
                              Log(r.logs[i].level, r.logs[i].msg, idx + 1)]
    /\ UNCHANGED <<records, token, origin_secret, fetches, pending, patches>>
    /\ UNCHANGED <<event, origin_verify_arn, history, pgVars>>

handler_for_end_off_by_one ==
    /\ pc = "for"
    /\ idx = Len(records) + 1
    /\ pc' = "returned"
    /\ UNCHANGED <<records, idx, token, origin_secret, fetches, parsed, pending,
                   patches, log, exc>>
    /\ UNCHANGED <<event, origin_verify_arn, history, pgVars>>

\* The loop is exhausted: handler returns.
handler_for_end ==
    /\ pc = "for"
    /\ idx = Len(records)
    /\ pc' = "returned"
    /\ UNCHANGED <<records, idx, token, origin_secret, fetches, parsed, pending,
                   patches, log, exc>>
    /\ UNCHANGED <<event, origin_verify_arn, history, pgVars>>

\* The rest of the loop body for a decoded payload: classification and the
\* handle_* function it selects, up to that function's call of patch_status.
handler_dispatch ==
    /\ pc = "dispatch"
    /\ LET payload == parsed[idx]
           branch == Classify(payload)
           h == IF branch = "ecs" THEN handle_ecs_task_failure(payload)
                ELSE handle_run_task_dlq(payload)
       IN CASE branch = "AttributeError" ->
                 /\ pc' = "raised"
                 /\ exc' = "AttributeError"
                 /\ UNCHANGED <<log, pending>>
            [] branch = "unrecognized" ->
                 /\ pc' = "for"
                 /\ log' = Append(log, Log("error", "Unrecognized payload shape; skipping", idx))
                 /\ UNCHANGED <<exc, pending>>
            [] branch \in {"ecs", "run_task"} /\ ~h.call ->
                 /\ pc' = "for"
                 /\ log' = Append(log, Log("error", h.msg, idx))
                 /\ UNCHANGED <<exc, pending>>
            [] branch \in {"ecs", "run_task"} /\ h.call ->
                 /\ pc' = "patch_status"
                 /\ pending' = [document_id |-> h.document_id, status |-> h.status]
                 /\ log' = log \o <<Log("info", h.msg, idx),
                                    Log("info", "Patching document status via management-api", idx)>>
                 /\ UNCHANGED exc
    /\ UNCHANGED <<records, idx, token, origin_secret, fetches, parsed, patches>>
    /\ UNCHANGED <<event, origin_verify_arn, history, pgVars>>

\* What request.urlopen(req, timeout=30) followed by resp.read() can do: a
\* 2xx response, HTTPError (any other response), URLError (the request could
\* not be sent), or the socket's TimeoutError while the response is awaited
\* or read, which is an OSError and not a URLError.
UrlopenOutcomes == {"2xx", "HTTPError", "URLError", "TimeoutError"}

\* The try/except of patch_status: what it logs and whether it raises.
OnUrlopenSwallowing(outcome) ==
    CASE outcome = "2xx" ->
           [raises |-> FALSE, logs |-> <<[level |-> "info", msg |-> "Patch status response"]>>]
      [] outcome = "HTTPError" ->
           [raises |-> TRUE,
            logs |-> <<[level |-> "error", msg |-> "HTTPError while patching document status"]>>]
      [] outcome = "URLError" ->
           [raises |-> FALSE,
            logs |-> <<[level |-> "error", msg |-> "URLError while patching document status"]>>]
      [] OTHER -> [raises |-> TRUE, logs |-> <<>>]

OnUrlopen(outcome) ==
    CASE outcome = "2xx" ->
           [raises |-> FALSE, logs |-> <<[level |-> "info", msg |-> "Patch status response"]>>]
      [] outcome = "HTTPError" ->
           [raises |-> TRUE,
            logs |-> <<[level |-> "error", msg |-> "HTTPError while patching document status"]>>]
      [] outcome = "URLError" ->
           [raises |-> TRUE,
            logs |-> <<[level |-> "error", msg |-> "URLError while patching document status"]>>]
      [] OTHER -> [raises |-> TRUE, logs |-> <<>>]

\* patch_status(document_id, status, token, origin_secret): the PATCH is sent
\* and its outcome handled; an exception leaves handler, which catches none.
patch_status ==
    /\ pc = "patch_status"
    /\ \E outcome \in UrlopenOutcomes :
         LET r == OnUrlopen(outcome)
         IN /\ patches' = Append(patches,
                   [rec |-> idx,
                    url |-> Url(pending.document_id),
                    body |-> [status |-> pending.status],
                    x_api_token |-> token,
                    x_origin_verify |-> origin_secret,
                    outcome |-> outcome])
            /\ log' = log \o [i \in 1..Len(r.logs) |->
                                Log(r.logs[i].level, r.logs[i].msg, idx)]
            /\ pc' = IF r.raises THEN "raised" ELSE "for"
            /\ exc' = IF r.raises THEN outcome ELSE exc
    /\ pending' = NoPending
    /\ UNCHANGED <<records, idx, token, origin_secret, fetches, parsed>>
    /\ UNCHANGED <<event, origin_verify_arn, history, pgVars>>

Next ==
    \/ handler_entry
    \/ get_ingestion_token
    \/ get_origin_verify_secret
    \/ handler_for_next
    \/ handler_for_end
    \/ handler_dispatch
    \/ patch_status

Spec == Init /\ [][Next]_vars

\* An invocation keeps running: handler is single-threaded and synchronous,
\* and each blocking call (secret fetch, PATCH with its 30 s timeout)
\* returns or fails.
FairSpec == Spec /\ WF_vars(Next)

TypeOK ==
    /\ records \in Batches
    /\ pc \in {"entry", "get_ingestion_token", "get_origin_verify_secret", "for",
               "dispatch", "patch_status", "returned", "raised"}
    /\ idx \in 0..Len(records)
    /\ Len(parsed) = idx
    /\ exc \in {"None", "SecretsManagerError", "ParamValidationError", "AttributeError", "JSONDecodeError",
                "HTTPError", "URLError", "TimeoutError"}

\* ======================================================================
\* Properties
\* ======================================================================
RecognizedEventTypes == {ObjectCreated, ObjectDeleted}

\* The PATCH calls issued for the record at position i of the batch.
PatchesFor(i) == {k \in 1..Len(patches) : patches[k].rec = i}

\* The handling of record i is over (skipped, reported, or raised at).
Handled(i) == i < idx \/ (i = idx /\ pc \in {"for", "returned", "raised"})

\* The invocation raised while handling record i.
RaisedAt(i) == pc = "raised" /\ idx = i /\ i > 0

\* The container overrides of a payload, by its shape.
OverridesOf(body) ==
    IF body.kind # "object" THEN <<>>
    ELSE IF body.dt = "ECS Task State Change" THEN body.det.list
    ELSE body.top.list

\* An environment list carries a non-empty key and a recognized event type.
CarriesPair(env_list) ==
    /\ Truthy(EnvMapGet(env_list, "S3_OBJECT_KEY"))
    /\ EnvMapGet(env_list, "EVENT_TYPE") \in RecognizedEventTypes

ExtractableFromSomeOverride(body) ==
    \E j \in 1..Len(OverridesOf(body)) : CarriesPair(OverridesOf(body)[j])

ExtractableFromFirstOverride(body) ==
    /\ OverridesOf(body) # <<>>
    /\ CarriesPair(OverridesOf(body)[1])

\* The key and event type of a record whose first override carries them.
KeyOf(body) == EnvMapGet(OverridesOf(body)[1], "S3_OBJECT_KEY")
EventTypeOf(body) == EnvMapGet(OverridesOf(body)[1], "EVENT_TYPE")

\* C1 as stated: a record the handler has handled got exactly one PATCH if a
\* key and a recognized event type are extractable from the container
\* overrides of its payload (from any of them), and no PATCH otherwise.
C1_PatchIffExtractable ==
    \A i \in 1..idx :
        /\ Cardinality(PatchesFor(i)) <= 1
        /\ Handled(i) =>
             Cardinality(PatchesFor(i)) =
                 (IF ExtractableFromSomeOverride(records[i]) THEN 1 ELSE 0)

\* C1 (amended): for every record the handler has reached, exactly one PATCH
\* is issued once its handling is over if and only if the FIRST container
\* override of its payload carries a non-empty S3_OBJECT_KEY and an
\* EVENT_TYPE equal to 'Object Created' or 'Object Deleted'; otherwise no
\* PATCH is issued for it.  No record ever has more than one PATCH.
C1_PatchIffFirstOverride ==
    \A i \in 1..idx :
        /\ Cardinality(PatchesFor(i)) <= 1
        /\ ~ExtractableFromFirstOverride(records[i]) => PatchesFor(i) = {}
        /\ Handled(i) =>
             Cardinality(PatchesFor(i)) =
                 (IF ExtractableFromFirstOverride(records[i]) THEN 1 ELSE 0)

\* A record whose pair sits only in its second override was handled without
\* a PATCH, and the reportable record after it got its PATCH.
C1_Witness ==
    /\ Len(records) = 2
    /\ idx = 2
    /\ Handled(2)
    /\ ExtractableFromSomeOverride(records[1])
    /\ ~ExtractableFromFirstOverride(records[1])
    /\ PatchesFor(1) = {}
    /\ ExtractableFromFirstOverride(records[2])
    /\ Cardinality(PatchesFor(2)) = 1

\* C2: when the PATCH for record k fails (HTTPError, URLError or a timeout)
\* the invocation has raised at record k, that PATCH is the last one issued
\* and no record after k has been parsed.
C2_FailedPatchHaltsBatch ==
    \A n \in 1..Len(patches) :
        patches[n].outcome # "2xx" =>
            /\ RaisedAt(patches[n].rec)
            /\ n = Len(patches)
            /\ Len(parsed) = patches[n].rec
            /\ \A m \in 1..Len(patches) : patches[m].rec <= patches[n].rec

\* The PATCH of the first of two records failed and the second record,
\* which is reportable, was never reached.
C2_Witness ==
    /\ Len(records) = 2
    /\ Len(patches) = 1
    /\ patches[1].rec = 1
    /\ patches[1].outcome = "URLError"
    /\ pc = "raised"
    /\ ExtractableFromFirstOverride(records[2])

\* An error was logged for record i.
ErrorLogged(i) == \E n \in 1..Len(log) : log[n].rec = i /\ log[n].level = "error"

\* The payload of a body that is valid JSON has one of the two known shapes.
RecognizedShape(body) ==
    /\ body.kind = "object"
    /\ body.dt = "ECS Task State Change" \/ body.top.present

\* Some override of the payload names S3_OBJECT_KEY / EVENT_TYPE with a
\* non-empty value.
NamedInSomeOverride(body, name) ==
    \E j \in 1..Len(OverridesOf(body)) : Truthy(EnvMapGet(OverridesOf(body)[j], name))

\* The per-message recoverable conditions: valid JSON of an unrecognized
\* shape, a key or event type missing from every override, an unrecognized
\* event type.
Recoverable(body) ==
    /\ body.kind # "badjson"
    /\ \/ ~RecognizedShape(body)
       \/ ~NamedInSomeOverride(body, "S3_OBJECT_KEY")
       \/ ~NamedInSomeOverride(body, "EVENT_TYPE")
       \/ /\ OverridesOf(body) # <<>>
          /\ Truthy(EventTypeOf(body))
          /\ EventTypeOf(body) \notin RecognizedEventTypes

\* C3: every record with a per-message recoverable condition is logged and
\* skipped: no PATCH is sent for it, the invocation does not raise at it, and
\* once its handling is over the loop is back at its head (or has returned
\* after the last record), so that the next record is processed.
C3_RecoverableSkipped ==
    \A i \in 1..idx :
        Recoverable(records[i]) =>
            /\ PatchesFor(i) = {}
            /\ ~RaisedAt(i)
            /\ Handled(i) => ErrorLogged(i)
            /\ (Handled(i) /\ idx = i) => pc \in {"for", "returned"}

\* C4: a record whose body is not JSON is logged and skipped: no PATCH is
\* sent for it, the invocation does not raise at it, the loop is back at its
\* head right after it, and handler returns only after the last record.
C4_BadJsonSkipped ==
    /\ pc = "returned" => idx = Len(records)
    /\ \A i \in 1..idx :
        records[i].kind = "badjson" =>
            /\ PatchesFor(i) = {}
            /\ ~RaisedAt(i)
            /\ \E n \in 1..Len(log) :
                 log[n] = Log("error", "Bad JSON body in SQS message; skipping", i)
            /\ idx = i => pc \in {"for", "returned"}

\* A body that is not JSON came first and the reportable record after it
\* was reported; handler returned.
C4_Witness ==
    /\ Len(records) = 2
    /\ records[1].kind = "badjson"
    /\ pc = "returned"
    /\ Len(patches) = 1
    /\ patches[1].rec = 2
    /\ patches[1].outcome = "2xx"

FetchesOf(arn) == {n \in 1..Len(fetches) : fetches[n].secret = arn}

Finished == pc \in {"returned", "raised"}

\* C5 as stated: in every invocation each of the two secrets is fetched
\* exactly once, both before any record is parsed or any PATCH is issued, and
\* a failed fetch makes the invocation raise with nothing processed.
C5_EachSecretFetchedOnce ==
    /\ Finished =>
         /\ Cardinality(FetchesOf("INGESTION_API_TOKEN_ARN")) = 1
         /\ Cardinality(FetchesOf("ORIGIN_VERIFY_ARN")) = 1
    /\ (parsed # <<>> \/ patches # <<>>) =>
         /\ Len(fetches) = 2
         /\ \A n \in 1..2 : fetches[n].ok
    /\ (\E n \in 1..Len(fetches) : ~fetches[n].ok) =>
         /\ pc = "raised"
         /\ parsed = <<>>
         /\ patches = <<>>

\* C5 (amended): an invocation with a non-empty batch fetches the ingestion
\* token exactly once, and the origin-verification secret exactly once if the
\* token fetch succeeded and not at all if it failed; an invocation with an
\* empty batch fetches neither.  Both fetches have succeeded before the first
\* record is parsed or any PATCH is issued, and a failed fetch makes the
\* invocation raise with zero records processed and zero PATCH calls.
C5_SecretsFetchedBeforeRecords ==
    /\ Cardinality(FetchesOf("INGESTION_API_TOKEN_ARN")) <= 1
    /\ Cardinality(FetchesOf("ORIGIN_VERIFY_ARN")) <= 1
    /\ records = <<>> => fetches = <<>>
    /\ (Finished /\ records # <<>>) =>
         /\ Cardinality(FetchesOf("INGESTION_API_TOKEN_ARN")) = 1
         /\ fetches[1].secret = "INGESTION_API_TOKEN_ARN"
         /\ Cardinality(FetchesOf("ORIGIN_VERIFY_ARN")) = (IF fetches[1].ok THEN 1 ELSE 0)
    /\ (parsed # <<>> \/ patches # <<>> \/ pc \in {"for", "dispatch", "patch_status"}) =>
         /\ Len(fetches) = 2
         /\ \A n \in 1..2 : fetches[n].ok
         /\ token = "ingestion-token"
         /\ origin_secret = "origin-verify-secret"
    /\ (\E n \in 1..Len(fetches) : ~fetches[n].ok) =>
         /\ pc = "raised"
         /\ idx = 0
         /\ parsed = <<>>
         /\ patches = <<>>

\* The token was fetched, the fetch of the origin-verification secret failed
\* and the invocation raised before its two records.
C5_Witness ==
    /\ Len(records) = 2
    /\ Len(fetches) = 2
    /\ fetches[1].ok
    /\ ~fetches[2].ok
    /\ pc = "raised"
    /\ parsed = <<>>

\* The status the event type of a reportable record maps to.
StatusOf(body) ==
    IF EventTypeOf(body) = ObjectCreated THEN "failed" ELSE "delete_failed"

\* In every state the records parsed so far are the first idx records of the
\* batch, and the PATCH calls issued so far are, in order, the reports of
\* reportable records at strictly increasing positions, none beyond the
\* record being handled.
InDeliveryOrder ==
    /\ parsed = SubSeq(records, 1, idx)
    /\ \A n \in 1..Len(patches) :
         /\ patches[n].rec \in 1..idx
         /\ ExtractableFromFirstOverride(records[patches[n].rec])
         /\ patches[n].body = [status |-> StatusOf(records[patches[n].rec])]
         /\ \A m \in 1..(n-1) : patches[m].rec < patches[n].rec
    /\ pc = "patch_status" => \A n \in 1..Len(patches) : patches[n].rec < idx

\* A record is parsed only at the head of the loop, with no PATCH pending,
\* and it is the record that follows the ones parsed before.
ParsedOnlyAtLoopHead ==
    parsed' # parsed =>
        /\ pc = "for"
        /\ pending = NoPending
        /\ \A i \in 1..idx : Handled(i)
        /\ Len(parsed) < Len(records)
        /\ parsed' = Append(parsed, records[Len(parsed) + 1])

\* C6: the records of a batch are handled strictly in delivery order: the
\* PATCH calls are an order-preserving subsequence of the batch, and record
\* i+1 is parsed only after the handling of record i, its PATCH included,
\* is over.
C6_DeliveryOrder == []InDeliveryOrder /\ [][ParsedOnlyAtLoopHead]_vars

\* Two different reportable records were both reported, first one first.
C6_Witness ==
    /\ Len(records) = 2
    /\ records[1] # records[2]
    /\ Len(patches) = 2
    /\ patches[1].rec = 1
    /\ patches[2].rec = 2
    /\ patches[1].url # patches[2].url

\* C7: the status of every PATCH is determined by the event type of its
\* record alone, whatever the shape of the payload: 'Object Created' gives
\* "failed", 'Object Deleted' gives "delete_failed", and a record with any
\* other event type gets no PATCH.
C7_StatusFromEventType ==
    \A i \in 1..idx :
        LET first == IF OverridesOf(records[i]) = <<>> THEN <<>>
                     ELSE OverridesOf(records[i])[1]
            event_type == EnvMapGet(first, "EVENT_TYPE")
        IN /\ event_type \notin RecognizedEventTypes => PatchesFor(i) = {}
           /\ \A n \in PatchesFor(i) :
                /\ event_type = ObjectCreated => patches[n].body.status = "failed"
                /\ event_type = ObjectDeleted => patches[n].body.status = "delete_failed"

\* An 'Object Created' record of the ECS shape was reported as "failed" and
\* an 'Object Deleted' record of the RunTask shape as "delete_failed".
C7_Witness ==
    /\ Len(patches) = 2
    /\ records[1].dt = "ECS Task State Change"
    /\ EventTypeOf(records[1]) = ObjectCreated
    /\ patches[1].body.status = "failed"
    /\ records[2].dt # "ECS Task State Change"
    /\ EventTypeOf(records[2]) = ObjectDeleted
    /\ patches[2].body.status = "delete_failed"

\* d is the filename of key without its extension: the last path component
\* of key, cut before its last dot when that dot is neither its first nor
\* its last character.
FilenameWithoutExtension(key, d) ==
    LET name == PathName(key)
        cuts == {i \in 2..(Len(name)-1) :
                    name[i] = "." /\ \A j \in (i+1)..Len(name) : name[j] # "."}
    IN /\ \A i \in 1..Len(d) : d[i] # "/"
       /\ IF cuts = {} THEN d = name
          ELSE \E i \in cuts : d = SubSeq(name, 1, i-1)

UrlPrefix == ALB_BASE_URL \o DOCS_API_PATH \o <<"/">>

DocumentIdOf(url) == SubSeq(url, Len(UrlPrefix) + 1, Len(url))

\* C8: every PATCH goes to {ALB_BASE_URL}{DOCS_API_PATH}/{document_id} where
\* document_id is the filename of the record's object key without its
\* extension ('documents/abc123.pdf' gives 'abc123', 'foo/bar.txt' gives
\* 'bar'), with body {"status": status}; PATCH calls for records with the
\* same key have the same document id.
C8_DocumentIdFromKey ==
    \A n \in 1..Len(patches) :
        LET key == KeyOf(records[patches[n].rec])
        IN /\ SubSeq(patches[n].url, 1, Len(UrlPrefix)) = UrlPrefix
           /\ FilenameWithoutExtension(key, DocumentIdOf(patches[n].url))
           /\ patches[n].body = [status |-> StatusOf(records[patches[n].rec])]
           /\ key = KeyAbcPdf =>
                DocumentIdOf(patches[n].url) = <<"a","b","c","1","2","3">>
           /\ key = KeyBarTxt => DocumentIdOf(patches[n].url) = <<"b","a","r">>
           /\ \A m \in 1..Len(patches) :
                KeyOf(records[patches[m].rec]) = key =>
                    patches[m].url = patches[n].url

\* Two records of different shapes with the key 'foo/bar.txt' were both
\* reported to .../documents/bar, the first with {"status": "failed"}.
C8_Witness ==
    /\ Len(patches) = 2
    /\ records[1] = Ecs(<<Pair(KeyBarTxt, ObjectCreated)>>)
    /\ records[2] = RunTask(<<Pair(KeyBarTxt, ObjectDeleted)>>)
    /\ patches[1].url = ALB_BASE_URL \o DOCS_API_PATH \o <<"/","b","a","r">>
    /\ patches[1].body = [status |-> "failed"]
    /\ patches[2].url = patches[1].url

\* The log messages of the three paths of the loop body.
EcsMessages ==
    {"Missing S3_OBJECT_KEY or EVENT_TYPE in ECS detail; skipping",
     "Unknown EVENT_TYPE in ECS detail; skipping",
     "Handling ECS Task failure event"}

RunTaskMessages ==
    {"Missing S3_OBJECT_KEY or EVENT_TYPE in RunTask payload; skipping",
     "Unknown EVENT_TYPE in RunTask payload; skipping",
     "Handling RunTask DLQ message"}

UnrecognizedMessages == {"Unrecognized payload shape; skipping"}

Took(i, messages) == \E n \in 1..Len(log) : log[n].rec = i /\ log[n].msg \in messages

\* C9: a decoded payload is classified by precedence: with the detail-type
\* 'ECS Task State Change' it takes the ECS path and its report comes from
\* detail.overrides.containerOverrides, even when it has a top-level
\* 'containerOverrides'; without that detail-type and with a top-level
\* 'containerOverrides' it takes the RunTask path; with neither it is logged
\* as unrecognized and skipped.  Each such record takes exactly one path.
C9_ClassifiedByPrecedence ==
    \A i \in 1..idx :
        (records[i].kind # "badjson" /\ Handled(i)) =>
            LET body == records[i]
                ecs == body.dt = "ECS Task State Change"
                top == body.top.present
            IN /\ ecs => /\ Took(i, EcsMessages)
                         /\ ~Took(i, RunTaskMessages \cup UnrecognizedMessages)
                         /\ PatchesFor(i) # {} <=>
                              (body.det.list # <<>> /\ CarriesPair(body.det.list[1]))
               /\ (~ecs /\ top) =>
                         /\ Took(i, RunTaskMessages)
                         /\ ~Took(i, EcsMessages \cup UnrecognizedMessages)
                         /\ PatchesFor(i) # {} <=>
                              (body.top.list # <<>> /\ CarriesPair(body.top.list[1]))
               /\ (~ecs /\ ~top) =>
                         /\ Took(i, UnrecognizedMessages)
                         /\ ~Took(i, EcsMessages \cup RunTaskMessages)
                         /\ PatchesFor(i) = {}
                         /\ ~RaisedAt(i)

PatchErrorMessages ==
    {"HTTPError while patching document status",
     "URLError while patching document status"}

\* C10: every failed PATCH (a non-2xx response or any network error, a
\* timeout included) has been logged as an error by patch_status, as the
\* last thing logged, when the invocation has raised because of it.
C10_FailedPatchLoggedAndRaised ==
    \A n \in 1..Len(patches) :
        patches[n].outcome # "2xx" =>
            /\ RaisedAt(patches[n].rec)
            /\ log # <<>>
            /\ log[Len(log)].level = "error"
            /\ log[Len(log)].rec = patches[n].rec
            /\ log[Len(log)].msg \in PatchErrorMessages

\* C11: with ORIGIN_VERIFY_ARN not configured an invocation with a non-empty
\* batch does not fail for that reason: the fetch of the origin-verification
\* secret does not make it raise, and once the token is fetched its records
\* are processed.
C11_UnsetArnDoesNotFail ==
    (origin_verify_arn = "None" /\ records # <<>>) =>
        /\ \A n \in 1..Len(fetches) :
             fetches[n].secret = "ORIGIN_VERIFY_ARN" => fetches[n].ok
        /\ (Finished /\ fetches # <<>> /\ fetches[1].ok) => parsed # <<>>

MissingMessages ==
    {"Missing S3_OBJECT_KEY or EVENT_TYPE in RunTask payload; skipping",
     "Missing S3_OBJECT_KEY or EVENT_TYPE in ECS detail; skipping"}

\* C16: only the first element of the container-overrides list is read.  A
\* record of a recognized shape whose first override lacks the key or the
\* event type is skipped as missing, without a PATCH, whatever its later
\* overrides carry, and so is one whose list is empty; a PATCH is built from
\* the key and event type of the first override alone.
C16_FirstOverrideOnly ==
    \A i \in 1..idx :
        (RecognizedShape(records[i]) /\ Handled(i)) =>
            LET ovs == OverridesOf(records[i])
                none == \/ ovs = <<>>
                        \/ ~Truthy(EnvMapGet(ovs[1], "S3_OBJECT_KEY"))
                        \/ ~Truthy(EnvMapGet(ovs[1], "EVENT_TYPE"))
            IN /\ none => /\ PatchesFor(i) = {}
                          /\ Took(i, MissingMessages)
                          /\ ~RaisedAt(i)
               /\ \A n \in PatchesFor(i) :
                    /\ patches[n].url = UrlPrefix \o Stem(EnvMapGet(ovs[1], "S3_OBJECT_KEY"))
                    /\ patches[n].body = [status |-> StatusOf(records[i])]

\* A record with two different pairs was reported from its first one, and
\* the record after it, whose pair sits only in its second override, was
\* skipped as missing.
C16_Witness ==
    /\ Len(records) = 2
    /\ records[1] = RunTask(<<Pair(KeyAbcPdf, ObjectCreated), Pair(KeyBarTxt, ObjectDeleted)>>)
    /\ Len(patches) = 1
    /\ patches[1].url = UrlPrefix \o <<"a","b","c","1","2","3">>
    /\ patches[1].body = [status |-> "failed"]
    /\ records[2] = Ecs(<<<<>>, Pair(KeyBarTxt, ObjectCreated)>>)
    /\ Handled(2)
    /\ Took(2, MissingMessages)

\* C19: an invocation whose event has no records (a missing or an empty
\* "Records" list) goes from its entry straight to a normal return: no
\* secret is fetched, nothing is parsed and no PATCH is issued.
C19_EmptyBatchReturns ==
    (EventGetRecords(event) = <<>> /\ pc # "entry") =>
        /\ pc = "returned"
        /\ exc = "None"
        /\ fetches = <<>>
        /\ token = "None"
        /\ origin_secret = "None"
        /\ parsed = <<>>
        /\ patches = <<>>

\* An event without a "Records" key was handled and handler returned, the
\* origin-verification ARN not even being configured.
C19_Witness ==
    /\ ~event.has_records
    /\ origin_verify_arn = "None"
    /\ pc = "returned"
    /\ Len(log) = 2

\* The two ways an invocation ends: a return after the last record, with
\* every record parsed once, or an exception raised by a secret fetch before
\* the first record or while the record at idx was being handled.
EndsByReturnOrRaise ==
    /\ pc = "returned" =>
         /\ exc = "None"
         /\ idx = Len(records)
         /\ parsed = records
    /\ pc = "raised" =>
         /\ exc # "None"
         /\ \/ /\ idx = 0
               /\ fetches # <<>>
               /\ ~fetches[Len(fetches)].ok
            \/ /\ idx \in 1..Len(records)
               /\ \/ exc = "AttributeError"
                  \/ /\ patches # <<>>
                     /\ patches[Len(patches)].rec = idx
                     /\ patches[Len(patches)].outcome = exc
    /\ parsed = SubSeq(records, 1, idx)
    /\ \A i \in 1..Len(records) : Cardinality(PatchesFor(i)) <= 1

\* The loop only moves forward, one record at a time, and nothing happens
\* after the invocation has ended.
OneRecordAtATime ==
    /\ idx' \in {idx, idx + 1}
    /\ ~Finished

\* C15: every invocation terminates, given that its blocking calls return or
\* fail: it ends by returning after every record of the batch has been
\* handled or by raising before that, there is no other outcome, and no
\* record is handled twice.
C15_Terminates ==
    /\ <>Finished
    /\ []EndsByReturnOrRaise
    /\ [][OneRecordAtATime]_vars

\* An invocation returned after handling both of its records, the second of
\* them reported.
C15_Witness ==
    /\ Len(records) = 2
    /\ pc = "returned"
    /\ idx = 2
    /\ PatchesFor(2) # {}

\* ======================================================================
\* Redelivery
\* ======================================================================
\* How many times the queue delivers a batch.
MaxDeliveries == 2

\* The record bodies of the redelivered batches: two reportable records of
\* one document, a reportable record of another, and one of each kind that
\* is skipped.
RedeliveryBodies ==
    { Ecs(<<Pair(KeyBarTxt, ObjectCreated)>>),
      RunTask(<<Pair(KeyBarTxt, ObjectDeleted)>>),
      RunTask(<<Pair(KeyAbcPdf, ObjectCreated)>>),
      RunTask(<<Pair(KeyBarTxt, ObjectTagsAdded)>>),
      Obj("absent", Absent, Absent),
      BadJson }

RedeliveryInit ==
    /\ event \in {[has_records |-> TRUE, Records |-> b] :
                    b \in UNION {[1..n -> RedeliveryBodies] : n \in 1..MaxBatch}}
    /\ origin_verify_arn \in OriginVerifyArns
    /\ history = <<>>
    /\ PgIdle
    /\ records = EventGetRecords(event)
    /\ HandlerStart

\* What an invocation that is over leaves behind outside the handler: how it
\* ended and the PATCH calls the API received.
Delivery == [pc |-> pc, exc |-> exc, idx |-> idx, patches |-> patches]

RedeliverResuming ==
    /\ pc = "raised"
    /\ Len(history) + 1 < MaxDeliveries
    /\ history' = Append(history, Delivery)
    /\ records' = EventGetRecords(event)
    /\ pc' = "entry"
    /\ idx' = IF idx = 0 THEN 0 ELSE idx - 1
    /\ parsed' = SubSeq(records, 1, IF idx = 0 THEN 0 ELSE idx - 1)
    /\ token' = "None"
    /\ origin_secret' = "None"
    /\ fetches' = <<>>
    /\ pending' = NoPending
    /\ patches' = <<>>
    /\ log' = <<>>
    /\ exc' = "None"
    /\ UNCHANGED <<event, origin_verify_arn, pgVars>>

\* The invocation raised, so the queue keeps the batch and delivers it
\* again: handler is invoked with the same event and starts from its first
\* statement, nothing of the previous invocation being kept.
Redeliver ==
    /\ pc = "raised"
    /\ Len(history) + 1 < MaxDeliveries
    /\ history' = Append(history, Delivery)
    /\ records' = EventGetRecords(event)
    /\ pc' = "entry"
    /\ idx' = 0
    /\ parsed' = <<>>
    /\ token' = "None"
    /\ origin_secret' = "None"
    /\ fetches' = <<>>
    /\ pending' = NoPending
    /\ patches' = <<>>
    /\ log' = <<>>
    /\ exc' = "None"
    /\ UNCHANGED <<event, origin_verify_arn, pgVars>>

RedeliveryNext ==
    \/ Next
    \/ Redeliver

RedeliverySpec == RedeliveryInit /\ [][RedeliveryNext]_vars

\* The exceptions a failed PATCH leaves handler with.
PatchFailures == {"HTTPError", "URLError", "TimeoutError"}

\* Delivery d raised at record k because its PATCH failed.
PatchFailedAt(d, k) == d.pc = "raised" /\ d.idx = k /\ d.exc \in PatchFailures

\* The successful PATCH calls of delivery d for record j.
ReportedIn(d, j) ==
    {n \in 1..Len(d.patches) : d.patches[n].rec = j /\ d.patches[n].outcome = "2xx"}

\* The current invocation has issued, for record j, the PATCH that call n of
\* delivery d made.
IssuedAgain(d, n, j) ==
    \E m \in PatchesFor(j) :
        /\ patches[m].url = d.patches[n].url
        /\ patches[m].body = d.patches[n].body

\* C17 as stated: when the previous delivery raised at record k because its
\* PATCH failed, the invocation of the redelivered batch, once over, has
\* issued again the PATCH of every record before k that the previous
\* delivery reported successfully.
C17_RedeliveryRepeatsEveryReport ==
    (history # <<>> /\ Finished) =>
        LET d == history[Len(history)]
        IN \A k \in 1..Len(records) : PatchFailedAt(d, k) =>
             \A j \in 1..(k - 1) : \A n \in ReportedIn(d, j) : IssuedAgain(d, n, j)

\* C17: when the previous delivery raised at record k because its PATCH
\* failed, the invocation of the redelivered batch has issued again, with
\* the same document and status, the PATCH of every record before k that
\* the previous delivery reported successfully and whose handling it has
\* completed; it completes none when a secret fetch fails.
C17_RedeliveryRepeatsReachedReports ==
    history # <<>> =>
        LET d == history[Len(history)]
        IN \A k \in 1..Len(records) : PatchFailedAt(d, k) =>
             \A j \in 1..(k - 1) : \A n \in ReportedIn(d, j) :
                 (idx >= j /\ Handled(j)) => IssuedAgain(d, n, j)

\* The same document has received the same status twice: the first record
\* was reported successfully by a delivery that raised at the second record's
\* PATCH, and again by the invocation of the redelivered batch.
C17_Witness ==
    /\ history # <<>>
    /\ PatchFailedAt(history[Len(history)], 2)
    /\ ReportedIn(history[Len(history)], 1) # {}
    /\ \E m \in PatchesFor(1) :
         /\ patches[m].outcome = "2xx"
         /\ patches[m].url = history[Len(history)].patches[1].url
         /\ patches[m].body = history[Len(history)].patches[1].body

\* ======================================================================
\* A batch and the same batch without its skipped records
\* ======================================================================
FilteredBodies == RedeliveryBodies \cup {NonObject}

FilteredInit ==
    /\ event \in {[has_records |-> TRUE, Records |-> b] :
                    b \in UNION {[1..n -> FilteredBodies] : n \in 1..MaxBatch}}
    /\ origin_verify_arn \in OriginVerifyArns
    /\ history = <<>>
    /\ PgIdle
    /\ records = EventGetRecords(event)
    /\ HandlerStart

\* The records handler is to log and skip: a body that is not JSON, or one
\* with a per-message recoverable condition.
SkippedRecord(body) == body.kind = "badjson" \/ Recoverable(body)

IsReported(body) == ~SkippedRecord(body)

\* The invocation is over; handler is invoked with the batch from which the
\* skipped records have been removed.
InvokeFiltered ==
    /\ Finished
    /\ history = <<>>
    /\ history' = <<Delivery>>
    /\ event' = [has_records |-> TRUE, Records |-> SelectSeq(records, IsReported)]
    /\ records' = EventGetRecords(event')
    /\ pc' = "entry"
    /\ idx' = 0
    /\ parsed' = <<>>
    /\ token' = "None"
    /\ origin_secret' = "None"
    /\ fetches' = <<>>
    /\ pending' = NoPending
    /\ patches' = <<>>
    /\ log' = <<>>
    /\ exc' = "None"
    /\ UNCHANGED <<origin_verify_arn, pgVars>>

FilteredNext ==
    \/ Next
    \/ InvokeFiltered

FilteredSpec == FilteredInit /\ [][FilteredNext]_vars

\* The exceptions of get_ingestion_token and get_origin_verify_secret.
SecretFailures == {"SecretsManagerError", "ParamValidationError"}

\* Every PATCH of the sequence succeeded.
AllSucceeded(calls) == \A n \in 1..Len(calls) : calls[n].outcome = "2xx"

\* The document and status of each PATCH call, in order.
DocumentsAndStatuses(calls) ==
    [n \in 1..Len(calls) |-> [url |-> calls[n].url, body |-> calls[n].body]]

\* C18: when the invocation of a batch and the invocation of the same batch
\* without its skipped records are both over, with both secrets fetched and
\* every PATCH successful in each, the two have issued the same sequence of
\* PATCH calls (document and status).
C18_SkippedRecordsHaveNoEffect ==
    (/\ history # <<>>
     /\ Finished
     /\ exc \notin SecretFailures
     /\ history[1].exc \notin SecretFailures
     /\ AllSucceeded(patches)
     /\ AllSucceeded(history[1].patches))
    => DocumentsAndStatuses(patches) = DocumentsAndStatuses(history[1].patches)

\* ======================================================================
\* The extension initializer (lambdas/init-pgvector/src/index.py)
\* ======================================================================
\* How many times the initializer is invoked on one database.
MaxInvocations == 3

handlerVars == <<event, origin_verify_arn, history,
                 records, pc, idx, token, origin_secret, fetches, parsed, pending,
                 patches, log, exc>>

\* The database before the first invocation: the extension is installed
\* already, or it is not and the server can or cannot provide it. The
\* status reporter is not running.
PgInit ==
    /\ event = NoRecordsKey
    /\ origin_verify_arn = "arn:origin-verify"
    /\ history = <<>>
    /\ records = EventGetRecords(event)
    /\ HandlerStart
    /\ pg_pc = "entry"
    /\ password = "None"
    /\ conn = "none"
    /\ schema \in {{}, {"vector"}}
    /\ tx = {}
    /\ available \in BOOLEAN
    /\ "vector" \in schema => available
    /\ pg_calls = <<>>
    /\ pg_exc = "None"
    /\ pg_runs = <<>>

\* A call the invocation has made, whether it succeeded, and the schema of
\* the database after it.
PgCall(call, ok, after) == [call |-> call, ok |-> ok, schema |-> after]

\* CREATE EXTENSION vector; on a database with the extensions installed:
\* an error when the extension exists.
CreateExtension(installed, can_provide) ==
    IF "vector" \in installed THEN [error |-> "DuplicateObject", created |-> {}]
    ELSE IF can_provide THEN [error |-> "None", created |-> {"vector"}]
    ELSE [error |-> "FeatureNotSupported", created |-> {}]

\* CREATE EXTENSION IF NOT EXISTS vector; on a database with the extensions
\* installed: nothing when the extension exists, its creation when the
\* server can provide it, an error otherwise.
CreateExtensionIfNotExists(installed, can_provide) ==
    IF "vector" \in installed THEN [error |-> "None", created |-> {}]
    ELSE IF can_provide THEN [error |-> "None", created |-> {"vector"}]
    ELSE [error |-> "FeatureNotSupported", created |-> {}]

\* What cursor.execute can do: the statement's own result, or the loss of
\* the connection before the statement ran.
ExecuteOutcomes(installed, can_provide) ==
    {CreateExtensionIfNotExists(installed, can_provide),
     [error |-> "OperationalError", created |-> {}]}

AfterGetSecretValueIgnoringFailure(ok) == "connect"

\* Line 11: nothing catches the exception of get_secret_value.
AfterGetSecretValue(ok) == IF ok THEN "connect" ELSE "raised"

\* Line 14: nothing catches the exception of psycopg2.connect, which is
\* outside the try.
AfterConnect(ok) == IF ok THEN "execute" ELSE "raised"

AfterExecuteWithoutFinally(error) == IF error = "None" THEN "commit" ELSE "raised"

\* Lines 23-28: an exception of the statement leaves the try through its
\* finally clause.
AfterExecute(error) == IF error = "None" THEN "commit" ELSE "close"

\* secrets.get_secret_value(...)['SecretString']
init_get_secret_value ==
    /\ pg_pc = "entry"
    /\ \E ok \in BOOLEAN :
         /\ pg_calls' = Append(pg_calls, PgCall("get_secret_value", ok, schema))
         /\ password' = IF ok THEN "SecretString" ELSE password
         /\ pg_exc' = IF ok THEN pg_exc ELSE "SecretsManagerError"
         /\ pg_pc' = AfterGetSecretValue(ok)
    /\ UNCHANGED <<conn, schema, tx, available, pg_runs, handlerVars>>

\* conn = psycopg2.connect(..., connect_timeout=30)
connect ==
    /\ pg_pc = "connect"
    /\ \E ok \in BOOLEAN :
         /\ pg_calls' = Append(pg_calls, PgCall("connect", ok, schema))
         /\ conn' = IF ok THEN "open" ELSE conn
         /\ pg_exc' = IF ok THEN pg_exc ELSE "OperationalError"
         /\ pg_pc' = AfterConnect(ok)
    /\ UNCHANGED <<password, schema, tx, available, pg_runs, handlerVars>>

\* with conn.cursor() as cursor: cursor.execute("CREATE EXTENSION IF NOT
\* EXISTS vector;"), in the transaction psycopg2 opens.
cursor_execute ==
    /\ pg_pc = "execute"
    /\ \E r \in ExecuteOutcomes(schema \cup tx, available) :
         /\ pg_calls' = Append(pg_calls, PgCall("execute", r.error = "None", schema))
         /\ tx' = tx \cup r.created
         /\ pg_exc' = IF r.error = "None" THEN pg_exc ELSE r.error
         /\ pg_pc' = AfterExecute(r.error)
    /\ UNCHANGED <<password, conn, schema, available, pg_runs, handlerVars>>

\* conn.commit(): the transaction is applied, or the commit fails and it is
\* not.
conn_commit ==
    /\ pg_pc = "commit"
    /\ \E ok \in BOOLEAN :
         /\ schema' = IF ok THEN schema \cup tx ELSE schema
         /\ pg_calls' = Append(pg_calls, PgCall("commit", ok, schema'))
         /\ tx' = IF ok THEN {} ELSE tx
         /\ pg_exc' = IF ok THEN pg_exc ELSE "OperationalError"
    /\ pg_pc' = "close"
    /\ UNCHANGED <<password, conn, available, pg_runs, handlerVars>>

\* finally: conn.close(), which discards a transaction that was not
\* committed; then handler returns, or the pending exception leaves it.
conn_close ==
    /\ pg_pc = "close"
    /\ conn' = "closed"
    /\ tx' = {}
    /\ pg_calls' = Append(pg_calls, PgCall("close", TRUE, schema))
    /\ pg_pc' = IF pg_exc = "None" THEN "returned" ELSE "raised"
    /\ UNCHANGED <<password, schema, available, pg_exc, pg_runs, handlerVars>>

\* The invocation is over and the initializer is invoked again on the same
\* database; handler starts from its first statement.
invoke_again ==
    /\ pg_pc \in {"returned", "raised"}
    /\ Len(pg_runs) + 1 < MaxInvocations
    /\ pg_runs' = Append(pg_runs, [pc |-> pg_pc, exc |-> pg_exc, conn |-> conn,
                                   calls |-> pg_calls, schema |-> schema])
    /\ pg_pc' = "entry"
    /\ password' = "None"
    /\ conn' = "none"
    /\ tx' = {}
    /\ pg_calls' = <<>>
    /\ pg_exc' = "None"
    /\ UNCHANGED <<schema, available, handlerVars>>

PgNext ==
    \/ init_get_secret_value
    \/ connect
    \/ cursor_execute
    \/ conn_commit
    \/ conn_close
    \/ invoke_again

PgSpec == PgInit /\ [][PgNext]_vars

\* The invocation of the initializer is over.
PgFinished == pg_pc \in {"returned", "raised"}

\* The calls of a kind among a sequence of calls.
CallsOf(calls, call) == {n \in 1..Len(calls) : calls[n].call = call}

\* A call of the kind was made and failed.
Failed(calls, call) == \E n \in CallsOf(calls, call) : ~calls[n].ok

\* C12: when the invocation is over, by return or by exception, its
\* connection is not open: if it was established (connect succeeded) it has
\* been closed, whatever the statement and the commit did; and the same
\* holds of every earlier invocation.
C12_ConnectionClosedAtEnd ==
    /\ PgFinished =>
         /\ conn # "open"
         /\ (\E n \in CallsOf(pg_calls, "connect") : pg_calls[n].ok) => conn = "closed"
    /\ \A r \in 1..Len(pg_runs) : pg_runs[r].conn # "open"

\* The statement failed on an established connection, and the invocation
\* raised with the connection closed.
C12_Witness ==
    /\ pg_pc = "raised"
    /\ Failed(pg_calls, "execute")
    /\ conn = "closed"

\* The errors CREATE EXTENSION can raise by itself.
StatementErrors == {"DuplicateObject", "FeatureNotSupported"}

\* The earlier invocations that returned.
SuccessfulRuns == {r \in 1..Len(pg_runs) : pg_runs[r].pc = "returned"}

\* C13: after an invocation that succeeded, the schema is the one that
\* invocation left (the extension, once) in every later state, whatever the
\* number and the outcome of the later invocations; a later invocation
\* creates nothing, its statement raises no error, and it fails only when
\* the secret store or the connection does.
C13_SecondInvocationIsNoOp ==
    \A r \in SuccessfulRuns :
        /\ pg_runs[r].schema = {"vector"}
        /\ schema = pg_runs[r].schema
        /\ tx = {}
        /\ pg_exc \notin StatementErrors
        /\ \A n \in CallsOf(pg_calls, "execute") :
             pg_calls[n].ok \/ pg_exc = "OperationalError"
        /\ pg_pc = "raised" =>
             \/ Failed(pg_calls, "get_secret_value")
             \/ pg_exc = "OperationalError"

\* The first invocation created the extension and returned, and the second
\* has returned as well.
C13_Witness ==
    /\ Len(pg_runs) = 1
    /\ pg_runs[1].pc = "returned"
    /\ pg_runs[1].calls[1].schema = {}
    /\ pg_pc = "returned"
    /\ schema = {"vector"}

====
